---- MODULE Spec2Model ----
(***************************************************************************)
(* Command recording of the OpenGL backend (src/backend/gl/src/command.rs):*)
(* RawCommandBuffer records commands into the memory of its command pool,  *)
(* which is either one buffer pair shared by every command buffer of the   *)
(* pool (Linear) or one pair per buffer id (Individual).                   *)
(***************************************************************************)
EXTENDS Integers, Sequences, FiniteSets, TLC

VARIABLES
    memory,     \* BufferMemory behind Arc<Mutex<..>>: Linear(buffer) | Individual{storage, next_buffer_id}
    bufs,       \* the RawCommandBuffers created so far (buf, id, individual_reset, cache)
    limits,     \* Limits { max_viewports }
    panicked,   \* "none", or the kind of panic that ended the program
    last,       \* the call made by the last step: [op, r, args]
    ghost,      \* bookkeeping about the calls made so far (not program state)
    mutex       \* the Mutex around memory: its holder, and per thread the access it is in

vars == <<memory, bufs, limits, panicked, last, ghost, mutex>>

-----------------------------------------------------------------------------
(* Bounds of the model *)

MaxBuffers == 2         \* command buffers created from the pool
MaxLog == 4             \* commands held by the pool's memory (all logs together)
MaxData == 3            \* 16-byte payload elements held by one data buffer
MaxViewportsLimit == 2  \* largest device limit max_viewports
MaxBlendSlots == 3      \* longest blend target list of a pipeline
MaxOffset == 3          \* largest offset of the slices merged on their own
MaxSize == 2            \* largest size of the slices merged on their own

-----------------------------------------------------------------------------
(* Option<T>: None is the empty sequence, Some(v) the one-element sequence *)

None == <<>>
Some(v) == <<v>>
IsSome(o) == o # <<>>
Unwrap(o) == o[1]

SeqsUpTo(S, n) == UNION {[1..k -> S] : k \in 0..n}

RECURSIVE Concat(_)
Concat(ss) == IF ss = <<>> THEN <<>> ELSE Head(ss) \o Concat(Tail(ss))

-----------------------------------------------------------------------------
(* 32-bit unsigned integers as two 16-bit limbs <<hi, lo>>, 64-bit ones as  *)
(* <<carry, hi, lo>> with carry the part above 2^32.                        *)

Limb == 65536
U32(n) == <<n \div Limb, n % Limb>>
U32Add(a, n) == LET lo == a[2] + n IN <<(a[1] + lo \div Limb) % Limb, lo % Limb>>
\* exact product of a 32-bit value and a small factor
MulExact(a, w) ==
    LET lo == a[2] * w
        hi == a[1] * w + lo \div Limb
    IN <<hi \div Limb, hi % Limb, lo % Limb>>
\* a - b, with the borrow out of bit 31
SubWrap(a, b) ==
    LET lo == a[2] - b[2]
        bl == IF lo < 0 THEN 1 ELSE 0
        hi == a[1] - b[1] - bl
        bh == IF hi < 0 THEN 1 ELSE 0
    IN [borrow |-> bh = 1, val |-> <<hi + bh * Limb, lo + bl * Limb>>]

-----------------------------------------------------------------------------
(* BufferSlice *)

BufferSliceNew == [offset |-> 0, size |-> 0]

\* BufferSlice::append: the merged slice, or the failure of assert_eq!
\* faulty variant: the other slice is merged wherever it lies
BufferSlice_append_unchecked(self, other) ==
    IF self.size = 0
    THEN [ok |-> TRUE, slice |-> [offset |-> other.offset, size |-> other.size]]
    ELSE [ok |-> TRUE, slice |-> [self EXCEPT !.size = self.size + other.size]]

BufferSlice_append(self, other) ==
    IF self.size = 0
    THEN [ok |-> TRUE, slice |-> [offset |-> other.offset, size |-> other.size]]
    ELSE IF self.offset + self.size = other.offset
         THEN [ok |-> TRUE, slice |-> [self EXCEPT !.size = self.size + other.size]]
         ELSE [ok |-> FALSE, slice |-> self]

-----------------------------------------------------------------------------
(* Cache *)

CacheNew ==
    [primitive |-> None, index_type |-> None, stencil_ref |-> None,
     blend_color |-> None, framebuffer |-> None, error_state |-> FALSE,
     patch_size |-> None, program |-> None, blend_targets |-> None]

-----------------------------------------------------------------------------
(* The pool's memory (pool.rs is not part of the sources at hand)           *)

OwnedBufferNew == [commands |-> <<>>, data |-> <<>>]

BufferMemoryNew(kind) ==
    IF kind = "Linear"
    THEN [kind |-> "Linear", buffer |-> OwnedBufferNew]
    ELSE [kind |-> "Individual", storage |-> <<>>, next_buffer_id |-> 0]

\* HashMap::insert on the storage map (a function from ids to buffer pairs)
Insert(storage, id, b) ==
    [i \in (DOMAIN storage) \cup {id} |-> IF i = id THEN b ELSE storage[i]]

\* the buffer pair a command buffer with this id records into
ActiveBuffer(mem, id) ==
    IF mem.kind = "Linear" THEN mem.buffer ELSE mem.storage[id]

WithActiveBuffer(mem, id, b) ==
    IF mem.kind = "Linear"
    THEN [mem EXCEPT !.buffer = b]
    ELSE [mem EXCEPT !.storage[id] = b]

RECURSIVE SumOver(_, _)
SumOver(f, S) ==
    IF S = {} THEN 0
    ELSE LET x == CHOOSE y \in S : TRUE IN f[x] + SumOver(f, S \ {x})

\* number of commands held by the whole memory
TotalCommands(mem) ==
    IF mem.kind = "Linear" THEN Len(mem.buffer.commands)
    ELSE SumOver([i \in DOMAIN mem.storage |-> Len(mem.storage[i].commands)],
                 DOMAIN mem.storage)

\* length of the longest data buffer
MaxDataLen(mem) ==
    IF mem.kind = "Linear" THEN Len(mem.buffer.data)
    ELSE LET L == {Len(mem.storage[i].data) : i \in DOMAIN mem.storage} \cup {0}
         IN CHOOSE m \in L : \A k \in L : k <= m

-----------------------------------------------------------------------------
(* Raw representation of the payload elements (little-endian target)        *)

LeBytes4(n) ==
    <<n % 256, (n \div 256) % 256, (n \div 65536) % 256, (n \div 16777216) % 256>>

RECURSIVE Log2(_)
Log2(n) == IF n <= 1 THEN 0 ELSE 1 + Log2(n \div 2)

RECURSIVE Pow2(_)
Pow2(e) == IF e = 0 THEN 1 ELSE 2 * Pow2(e - 1)

\* IEEE-754 single of a whole number 0 <= v < 2^16: its bit pattern
F32Bits(v) ==
    IF v = 0 THEN 0
    ELSE LET e == Log2(v) IN (e + 127) * Pow2(23) + (v - Pow2(e)) * Pow2(23 - e)

\* IEEE-754 double of a whole number 0 <= v < 2^16: the high word of its bit
\* pattern (the low word is zero)
F64HighBits(v) ==
    IF v = 0 THEN 0
    ELSE LET e == Log2(v) IN (e + 1023) * Pow2(20) + (v - Pow2(e)) * Pow2(20 - e)

\* the coordinates and depth bounds that occur in the inputs
Scalars == {0, 1, 2, 3, 4, 480, 640}

I32Table == [v \in Scalars |-> LeBytes4(v)]
F32Table == [v \in Scalars |-> LeBytes4(F32Bits(v))]
F64Table == [v \in Scalars |-> LeBytes4(0) \o LeBytes4(F64HighBits(v))]

\* `x as i32`, `x as f32` of a u16 coordinate and `x as f64` of a depth bound,
\* as the bytes add() copies
I32Bytes(v) == I32Table[v]
F32Bytes(v) == F32Table[v]
F64Bytes(v) == F64Table[v]

-----------------------------------------------------------------------------
(* RawCommandBuffer. The operators below act on the part of the state one   *)
(* call touches: s = [memory, rb, panicked], rb being the command buffer.   *)
(* A call that panicked does nothing further.                               *)

\* faulty variant: the id counter of the storage is not advanced
new_noincrement(mem) ==
    IF mem.kind = "Linear"
    THEN [memory |-> mem,
          rb |-> [buf |-> BufferSliceNew, id |-> 0, individual_reset |-> FALSE,
                  cache |-> CacheNew]]
    ELSE [memory |-> [mem EXCEPT
                        !.storage = Insert(mem.storage, mem.next_buffer_id, OwnedBufferNew)],
          rb |-> [buf |-> BufferSliceNew, id |-> mem.next_buffer_id,
                  individual_reset |-> TRUE, cache |-> CacheNew]]

\* RawCommandBuffer::new: the new command buffer and the memory after it
new(mem) ==
    IF mem.kind = "Linear"
    THEN [memory |-> mem,
          rb |-> [buf |-> BufferSliceNew, id |-> 0, individual_reset |-> FALSE,
                  cache |-> CacheNew]]
    ELSE [memory |-> [mem EXCEPT
                        !.storage = Insert(mem.storage, mem.next_buffer_id, OwnedBufferNew),
                        !.next_buffer_id = mem.next_buffer_id + 1],
          rb |-> [buf |-> BufferSliceNew, id |-> mem.next_buffer_id,
                  individual_reset |-> TRUE, cache |-> CacheNew]]

\* faulty variant: the coverage slice survives the soft reset
soft_reset_keepbuf(s) ==
    [s EXCEPT !.rb.cache = CacheNew]

soft_reset(s) ==
    [s EXCEPT !.rb.buf = BufferSliceNew, !.rb.cache = CacheNew]

\* faulty variant: the command is put at the head of the log
push_cmd_front(s, cmd) ==
    IF s.panicked # "none" THEN s
    ELSE LET b == ActiveBuffer(s.memory, s.rb.id)
             cmd_buffer == <<cmd>> \o b.commands
             slice == [offset |-> Len(cmd_buffer) - 1, size |-> 1]
             a == BufferSlice_append(s.rb.buf, slice)
         IN [memory |-> WithActiveBuffer(s.memory, s.rb.id,
                                         [b EXCEPT !.commands = cmd_buffer]),
             rb |-> [s.rb EXCEPT !.buf = a.slice],
             panicked |-> IF a.ok THEN "none" ELSE "assert_eq"]

push_cmd(s, cmd) ==
    IF s.panicked # "none" THEN s
    ELSE LET b == ActiveBuffer(s.memory, s.rb.id)
             cmd_buffer == Append(b.commands, cmd)
             slice == [offset |-> Len(cmd_buffer) - 1, size |-> 1]
             a == BufferSlice_append(s.rb.buf, slice)
         IN [memory |-> WithActiveBuffer(s.memory, s.rb.id,
                                         [b EXCEPT !.commands = cmd_buffer]),
             rb |-> [s.rb EXCEPT !.buf = a.slice],
             panicked |-> IF a.ok THEN "none" ELSE "assert_eq"]

\* faulty variant: the slice starts where the copied bytes end
add_raw_offset_after(s, data) ==
    LET b == ActiveBuffer(s.memory, s.rb.id)
        data_buffer == b.data \o data
    IN [s |-> [s EXCEPT !.memory = WithActiveBuffer(s.memory, s.rb.id,
                                                    [b EXCEPT !.data = data_buffer])],
        slice |-> [offset |-> Len(data_buffer), size |-> Len(data)]]

\* add_raw: the state after the copy and the slice of the copied bytes
add_raw(s, data) ==
    LET b == ActiveBuffer(s.memory, s.rb.id)
        data_buffer == b.data \o data
    IN [s |-> [s EXCEPT !.memory = WithActiveBuffer(s.memory, s.rb.id,
                                                    [b EXCEPT !.data = data_buffer])],
        slice |-> [offset |-> Len(data_buffer) - Len(data), size |-> Len(data)]]

\* the raw bytes of one element of type T
BytesOf(T, v) ==
    CASE T = "i32" -> I32Bytes(v)
      [] T = "f32" -> F32Bytes(v)
      [] T = "f64" -> F64Bytes(v)

\* add::<T>: the elements' raw bytes are copied
add(s, data, T) ==
    add_raw(s, Concat([i \in 1..Len(data) |-> BytesOf(T, data[i])]))

-----------------------------------------------------------------------------
(* Commands *)

Dispatch(x, y, z) == [tag |-> "Dispatch", x |-> x, y |-> y, z |-> z]
Draw(primitive, vertices, instances) ==
    [tag |-> "Draw", primitive |-> primitive, vertices |-> vertices,
     instances |-> instances]
DrawIndexed(primitive, index_type, index_count, index_buffer_offset, base_vertex, instances) ==
    [tag |-> "DrawIndexed", primitive |-> primitive, index_type |-> index_type,
     index_count |-> index_count, index_buffer_offset |-> index_buffer_offset,
     base_vertex |-> base_vertex, instances |-> instances]
BindIndexBuffer(raw) == [tag |-> "BindIndexBuffer", buffer |-> raw]
SetViewports(viewport_ptr, depth_range_ptr) ==
    [tag |-> "SetViewports", viewport_ptr |-> viewport_ptr,
     depth_range_ptr |-> depth_range_ptr]
SetScissors(ptr) == [tag |-> "SetScissors", ptr |-> ptr]
SetBlendColor(cv) == [tag |-> "SetBlendColor", color |-> cv]
SetPatchSize(size) == [tag |-> "SetPatchSize", size |-> size]
BindProgram(program) == [tag |-> "BindProgram", program |-> program]
BindBlendSlot(slot, desc) == [tag |-> "BindBlendSlot", slot |-> slot, desc |-> desc]
BindAttribute(attribute) == [tag |-> "BindAttribute", attribute |-> attribute]

\* OpenGL enumerants used by the recorder
GL_TRIANGLES == 4
GL_PATCHES == 14
GL_UNSIGNED_SHORT == 5123
GL_UNSIGNED_INT == 5125

-----------------------------------------------------------------------------
(* State cache and pipeline binding *)

\* Vec::resize(n, None) when the vector is shorter than n
Resize(v, n) == [i \in 1..n |-> IF i <= Len(v) THEN v[i] ELSE None]

\* faulty variant: a known slot is bound whether or not the cached entry differs
update_blend_slot_always(s, slot, blend_target) ==
    IF s.panicked # "none" THEN s
    ELSE LET bt == s.rb.cache.blend_targets
             known == IsSome(bt) /\ slot < Len(Unwrap(bt))
             s1 == IF known
                   THEN [s EXCEPT !.rb.cache.blend_targets =
                            Some([Unwrap(bt) EXCEPT ![slot + 1] = Some(blend_target)])]
                   ELSE s
         IN IF known THEN push_cmd(s1, BindBlendSlot(slot, blend_target)) ELSE s1

\* one turn of the loop of update_blend_targets, for the 0-based slot
update_blend_slot(s, slot, blend_target) ==
    IF s.panicked # "none" THEN s
    ELSE LET bt == s.rb.cache.blend_targets
             known == IsSome(bt) /\ slot < Len(Unwrap(bt))
             update_blend ==
                 known /\ (Unwrap(bt)[slot + 1] = None
                           \/ Unwrap(Unwrap(bt)[slot + 1]) # blend_target)
             s1 == IF update_blend
                   THEN [s EXCEPT !.rb.cache.blend_targets =
                            Some([Unwrap(bt) EXCEPT ![slot + 1] = Some(blend_target)])]
                   ELSE s
         IN IF update_blend THEN push_cmd(s1, BindBlendSlot(slot, blend_target)) ELSE s1

RECURSIVE update_blend_loop(_, _, _)
update_blend_loop(s, blend_targets, slot) ==
    IF slot >= Len(blend_targets) THEN s
    ELSE update_blend_loop(update_blend_slot(s, slot, blend_targets[slot + 1]),
                           blend_targets, slot + 1)

update_blend_targets(s, blend_targets) ==
    IF s.panicked # "none" THEN s ELSE
    LET max_blend_slots == Len(blend_targets)
        bt == s.rb.cache.blend_targets
        s1 == IF max_blend_slots > 0
              THEN IF IsSome(bt)
                   THEN IF Len(Unwrap(bt)) < max_blend_slots
                        THEN [s EXCEPT !.rb.cache.blend_targets =
                                  Some(Resize(Unwrap(bt), max_blend_slots))]
                        ELSE s
                   ELSE [s EXCEPT !.rb.cache.blend_targets =
                             Some([i \in 1..max_blend_slots |-> None])]
              ELSE s
    IN update_blend_loop(s1, blend_targets, 0)

RECURSIVE bind_attributes(_, _)
bind_attributes(s, attributes) ==
    IF attributes = <<>> THEN s
    ELSE bind_attributes(push_cmd(s, BindAttribute(Head(attributes))), Tail(attributes))

\* faulty variant: the colour is cached but no command is pushed
set_blend_constants_unrecorded(s, cv) ==
    IF s.rb.cache.blend_color # Some(cv)
    THEN [s EXCEPT !.rb.cache.blend_color = Some(cv)]
    ELSE s

set_blend_constants(s, cv) ==
    IF s.rb.cache.blend_color # Some(cv)
    THEN push_cmd([s EXCEPT !.rb.cache.blend_color = Some(cv)], SetBlendColor(cv))
    ELSE s

\* the patch-size part of bind_graphics_pipeline
bind_patch_size(s, patch_size) ==
    IF s.rb.cache.patch_size # patch_size
    THEN LET s1 == [s EXCEPT !.rb.cache.patch_size = patch_size]
         IN IF IsSome(patch_size) THEN push_cmd(s1, SetPatchSize(Unwrap(patch_size)))
            ELSE s1
    ELSE s

\* faulty variant: the program is bound on every call, the cache is not consulted
bind_program_always(s, program) ==
    IF s.panicked # "none" THEN s
    ELSE push_cmd([s EXCEPT !.rb.cache.program = Some(program)], BindProgram(program))

\* the program part of bind_graphics_pipeline
bind_program(s, program) ==
    IF s.panicked # "none" THEN s
    ELSE IF s.rb.cache.program # Some(program)
    THEN push_cmd([s EXCEPT !.rb.cache.program = Some(program)], BindProgram(program))
    ELSE s

bind_graphics_pipeline(s, pipeline) ==
    LET s1 == IF s.rb.cache.primitive # Some(pipeline.primitive)
              THEN [s EXCEPT !.rb.cache.primitive = Some(pipeline.primitive)]
              ELSE s
        s2 == bind_patch_size(s1, pipeline.patch_size)
        s3 == bind_program(s2, pipeline.program)
        s4 == bind_attributes(s3, pipeline.attributes)
    IN update_blend_targets(s4, pipeline.blend_targets)

bind_index_buffer(s, ibv) ==
    push_cmd([s EXCEPT !.rb.cache.index_type = Some(ibv.index_type)],
             BindIndexBuffer(ibv.buffer))

-----------------------------------------------------------------------------
(* Draw calls *)

\* faulty variant: a draw without topology is skipped and the error flag forgotten
draw_silent(s, vertices, instances) ==
    IF IsSome(s.rb.cache.primitive)
    THEN push_cmd(s, Draw(Unwrap(s.rb.cache.primitive), vertices, instances))
    ELSE s

draw(s, vertices, instances) ==
    IF IsSome(s.rb.cache.primitive)
    THEN push_cmd(s, Draw(Unwrap(s.rb.cache.primitive), vertices, instances))
    ELSE [s EXCEPT !.rb.cache.error_state = TRUE]

IndexWidth(index_type) == IF index_type = "U16" THEN 2 ELSE 4
IndexGlType(index_type) ==
    IF index_type = "U16" THEN GL_UNSIGNED_SHORT ELSE GL_UNSIGNED_INT

\* the u32 product indices.start * width leaves 32 bits
StartOverflows(s, indices) ==
    /\ IsSome(s.rb.cache.index_type)
    /\ MulExact(indices.start, IndexWidth(Unwrap(s.rb.cache.index_type)))[1] # 0

\* the u32 difference indices.end - indices.start is negative
CountOverflows(s, indices) ==
    /\ IsSome(s.rb.cache.index_type)
    /\ IsSome(s.rb.cache.primitive)
    /\ SubWrap(indices.end, indices.start).borrow

\* faulty variant: a flagged command buffer records no further indexed draw
draw_indexed_unless_flagged(s, indices, base_vertex, instances, checks) ==
    IF s.rb.cache.error_state THEN s
    ELSE IF s.rb.cache.index_type = None \/ s.rb.cache.primitive = None
    THEN [s EXCEPT !.rb.cache.error_state = TRUE]
    ELSE push_cmd(s, DrawIndexed(Unwrap(s.rb.cache.primitive),
                                 IndexGlType(Unwrap(s.rb.cache.index_type)),
                                 SubWrap(indices.end, indices.start).val,
                                 MulExact(indices.start,
                                          IndexWidth(Unwrap(s.rb.cache.index_type))),
                                 base_vertex, instances))

\* checks: the build checks arithmetic overflow (a debug build) and panics on
\* it; otherwise the result wraps modulo 2^32
draw_indexed(s, indices, base_vertex, instances, checks) ==
    IF s.rb.cache.index_type = None
    THEN [s EXCEPT !.rb.cache.error_state = TRUE]
    ELSE IF StartOverflows(s, indices) /\ checks
    THEN [s EXCEPT !.panicked = "overflow"]
    ELSE LET prod == MulExact(indices.start, IndexWidth(Unwrap(s.rb.cache.index_type)))
             start == <<prod[2], prod[3]>>
             index_type == IndexGlType(Unwrap(s.rb.cache.index_type))
         IN IF IsSome(s.rb.cache.primitive)
            THEN IF CountOverflows(s, indices) /\ checks
                 THEN [s EXCEPT !.panicked = "overflow"]
                 ELSE push_cmd(s, DrawIndexed(Unwrap(s.rb.cache.primitive), index_type,
                                              SubWrap(indices.end, indices.start).val,
                                              <<0, start[1], start[2]>>,
                                              base_vertex, instances))
            ELSE [s EXCEPT !.rb.cache.error_state = TRUE]

dispatch(s, x, y, z) == push_cmd(s, Dispatch(x, y, z))

-----------------------------------------------------------------------------
(* Viewports and scissors *)

RectF32(rect) == <<rect.x, rect.y, rect.w, rect.h>>
DepthF64(depth) == <<depth.start, depth.end>>

\* the loop of set_viewports; st = [s, viewport_ptr, depth_range_ptr, len]
RECURSIVE viewports_loop(_, _)
viewports_loop(st, viewports) ==
    IF viewports = <<>> \/ st.s.panicked # "none" THEN st
    ELSE LET viewport == Head(viewports)
             r1 == add(st.s, RectF32(viewport.rect), "f32")
             a1 == BufferSlice_append(st.viewport_ptr, r1.slice)
             r2 == add(r1.s, DepthF64(viewport.depth), "f64")
             a2 == BufferSlice_append(st.depth_range_ptr, r2.slice)
         IN IF ~a1.ok
            THEN [st EXCEPT !.s = [r1.s EXCEPT !.panicked = "assert_eq"]]
            ELSE IF ~a2.ok
            THEN [st EXCEPT !.s = [r2.s EXCEPT !.panicked = "assert_eq"],
                            !.viewport_ptr = a1.slice]
            ELSE viewports_loop([s |-> r2.s, viewport_ptr |-> a1.slice,
                                 depth_range_ptr |-> a2.slice, len |-> st.len + 1],
                                Tail(viewports))

set_viewports(s, viewports) ==
    LET st == viewports_loop([s |-> s, viewport_ptr |-> [offset |-> 0, size |-> 0],
                              depth_range_ptr |-> [offset |-> 0, size |-> 0],
                              len |-> 0], viewports)
    IN IF st.s.panicked # "none" THEN st.s
       ELSE IF st.len = 0 THEN [st.s EXCEPT !.rb.cache.error_state = TRUE]
       ELSE IF st.len <= limits.max_viewports
       THEN push_cmd(st.s, SetViewports(st.viewport_ptr, st.depth_range_ptr))
       ELSE [st.s EXCEPT !.rb.cache.error_state = TRUE]

\* the loop of set_scissors; st = [s, scissors_ptr, len]
RECURSIVE scissors_loop(_, _)
scissors_loop(st, scissors) ==
    IF scissors = <<>> \/ st.s.panicked # "none" THEN st
    ELSE LET r1 == add(st.s, RectF32(Head(scissors)), "i32")
             a1 == BufferSlice_append(st.scissors_ptr, r1.slice)
         IN IF ~a1.ok
            THEN [st EXCEPT !.s = [r1.s EXCEPT !.panicked = "assert_eq"]]
            ELSE scissors_loop([s |-> r1.s, scissors_ptr |-> a1.slice,
                                len |-> st.len + 1], Tail(scissors))

\* faulty variant: the count is validated before anything is serialized
set_scissors_validate_first(s, scissors) ==
    IF Len(scissors) = 0 \/ Len(scissors) > limits.max_viewports
    THEN [s EXCEPT !.rb.cache.error_state = TRUE]
    ELSE LET st == scissors_loop([s |-> s, scissors_ptr |-> [offset |-> 0, size |-> 0],
                                  len |-> 0], scissors)
         IN IF st.s.panicked # "none" THEN st.s
            ELSE push_cmd(st.s, SetScissors(st.scissors_ptr))

set_scissors(s, scissors) ==
    LET st == scissors_loop([s |-> s, scissors_ptr |-> [offset |-> 0, size |-> 0],
                             len |-> 0], scissors)
    IN IF st.s.panicked # "none" THEN st.s
       ELSE IF st.len = 0 THEN [st.s EXCEPT !.rb.cache.error_state = TRUE]
       ELSE IF st.len <= limits.max_viewports
       THEN push_cmd(st.s, SetScissors(st.scissors_ptr))
       ELSE [st.s EXCEPT !.rb.cache.error_state = TRUE]

-----------------------------------------------------------------------------
(* begin, finish, reset *)

\* faulty variant: every pair of the storage is cleared
reset_all(s) ==
    IF ~s.rb.individual_reset THEN s
    ELSE LET s1 == soft_reset(s)
         IN IF s1.memory.kind = "Linear"
            THEN [s1 EXCEPT !.panicked = "unreachable"]
            ELSE [s1 EXCEPT !.memory.storage =
                     [i \in DOMAIN @ |-> [commands |-> <<>>, data |-> <<>>]]]

\* reset(release_resources); the flag is not used by the code
reset(s) ==
    IF ~s.rb.individual_reset THEN s
    ELSE LET s1 == soft_reset(s)
         IN IF s1.memory.kind = "Linear"
            THEN [s1 EXCEPT !.panicked = "unreachable"]
            ELSE IF s1.rb.id \in DOMAIN s1.memory.storage
                 THEN [s1 EXCEPT !.memory.storage[s1.rb.id] =
                                      [commands |-> <<>>, data |-> <<>>]]
                 ELSE s1

\* faulty variant: without individual reset, begin does nothing
begin_skip(s) == IF s.rb.individual_reset THEN reset(s) ELSE s

begin(s) == IF s.rb.individual_reset THEN reset(s) ELSE soft_reset(s)

\* faulty variant: finishing clears the coverage slice and the cache
finish_soft_reset(s) == soft_reset(s)

finish(s) == s

\* faulty variant: an unsupported call is treated as a validation failure
unimplemented_flagged(s) == [s EXCEPT !.rb.cache.error_state = TRUE]

\* unimplemented!(): the body of the calls that are not supported
unimplemented(s) == [s EXCEPT !.panicked = "unimplemented"]

\* RawCommandPool::reset of a Linear pool: the shared log and data are cleared
pool_reset(mem) ==
    [mem EXCEPT !.buffer = [commands |-> <<>>, data |-> <<>>]]

-----------------------------------------------------------------------------
(* Inputs of the calls *)

Programs == {1, 2}
BlendDescs == {"B0", "B1"}
ColorValues == {"C0", "C1"}

\* n::GraphicsPipeline {primitive, patch_size, program, blend_targets, attributes};
\* a pipeline has a patch size exactly when its topology is a patch list
Topologies ==
    {[primitive |-> GL_TRIANGLES, patch_size |-> None],
     [primitive |-> GL_PATCHES, patch_size |-> Some(3)],
     [primitive |-> GL_PATCHES, patch_size |-> Some(4)]}

\* blend target lists: the prefixes of B0 B1 B0 B1 ... and of B1 B1 B1 ...
BlendTargetLists ==
    {[i \in 1..k |-> IF alt /\ i % 2 = 1 THEN "B0" ELSE "B1"] :
        k \in 0..MaxBlendSlots, alt \in BOOLEAN}

\* program 2 reads one vertex attribute, program 1 none
AttributesOf(program) == IF program = 2 THEN <<"A0">> ELSE <<>>

Pipelines ==
    {[primitive |-> t.primitive, patch_size |-> t.patch_size, program |-> p,
      blend_targets |-> b, attributes |-> AttributesOf(p)] :
        t \in Topologies, p \in Programs, b \in BlendTargetLists}

PlainPipelines ==
    {[primitive |-> t.primitive, patch_size |-> t.patch_size, program |-> 1,
      blend_targets |-> <<>>, attributes |-> <<>>] :
        t \in {u \in Topologies : u.patch_size \in {None, Some(3)}}}

IndexBufferViews == {[buffer |-> 7, index_type |-> ty] : ty \in {"U16", "U32"}}

VertexRanges == {[start |-> 0, end |-> 3], [start |-> 3, end |-> 9]}
InstanceRanges == {[start |-> 0, end |-> 1]}

\* 10..20, 2^30..2^30+10, 2^31..2^31+10 and the reversed range 20..10
IndexRanges ==
    {[start |-> U32(10), end |-> U32(20)],
     [start |-> <<16384, 0>>, end |-> <<16384, 10>>],
     [start |-> <<32768, 0>>, end |-> <<32768, 10>>],
     [start |-> U32(20), end |-> U32(10)]}
BaseVertices == {0, 3}

Rects == {[x |-> 0, y |-> 0, w |-> 4, h |-> 3], [x |-> 1, y |-> 2, w |-> 640, h |-> 480]}
Viewports == {[rect |-> r, depth |-> [start |-> 0, end |-> 1]] : r \in Rects}

\* calls whose body is unimplemented!()
UnimplementedOps ==
    {"fill_buffer", "update_buffer", "copy_buffer", "copy_image",
     "copy_buffer_to_image", "copy_image_to_buffer", "bind_compute_pipeline",
     "begin_query", "end_query", "reset_query_pool", "write_timestamp",
     "push_graphics_constants", "push_compute_constants"}

-----------------------------------------------------------------------------
(* Bookkeeping: per command buffer, the values most recently bound through  *)
(* it since it was created or last reset, the log positions it appended     *)
(* since then, and whether it was created or begun after the last reset of  *)
(* the pool.                                                                *)

\* the mutex is free and no thread is in an access to the memory; thread 0
\* creates command buffers, thread r records into command buffer r
MutexNew == [holder |-> None, access |-> [p \in 0..MaxBuffers |-> "idle"]]

\* faulty variant: the access goes ahead whether or not the mutex is held
try_lock_unchecked(m, p) ==
    [ok |-> TRUE, mutex |-> IF m.holder = None THEN [m EXCEPT !.holder = Some(p)] ELSE m]

\* memory.try_lock() by thread p: the guard is obtained only if the mutex is
\* free; the caller's expect() panics otherwise
try_lock(m, p) ==
    IF m.holder = None
    THEN [ok |-> TRUE, mutex |-> [m EXCEPT !.holder = Some(p)]]
    ELSE [ok |-> FALSE, mutex |-> m]

\* the guard of thread p goes out of scope
unlock(m, p) == [holder |-> None, access |-> [m.access EXCEPT ![p] = "idle"]]

GhostNew ==
    [primitive |-> None, index_type |-> None, program |-> None,
     patch_size |-> None, blend_color |-> None, mine |-> {}, fresh |-> TRUE]

\* positions appended to the log of command buffer rb between mem1 and mem2
Grown(mem1, mem2, rb) ==
    (Len(ActiveBuffer(mem1, rb.id).commands))
        .. (Len(ActiveBuffer(mem2, rb.id).commands) - 1)

-----------------------------------------------------------------------------
(* The state machine *)

\* the lengths of a buffer pair
Lengths(b) == [commands |-> Len(b.commands), data |-> Len(b.data)]

\* the pool is constructed; no command buffer exists yet
Init ==
    /\ memory \in {BufferMemoryNew("Linear"), BufferMemoryNew("Individual")}
    /\ bufs = <<>>
    /\ limits \in {[max_viewports |-> n] : n \in 1..MaxViewportsLimit}
    /\ panicked = "none"
    /\ last = [op |-> "init", r |-> 0, args |-> <<>>, before |-> Lengths(OwnedBufferNew)]
    /\ ghost = [rec |-> <<>>, pool_was_reset |-> FALSE, wrapped |-> FALSE]
    /\ mutex = MutexNew

\* the pool and one command buffer of it are constructed
InitOne ==
    /\ \E kind \in {"Linear", "Individual"} :
          LET n == new(BufferMemoryNew(kind))
          IN memory = n.memory /\ bufs = <<n.rb>>
    /\ limits \in {[max_viewports |-> n] : n \in 1..MaxViewportsLimit}
    /\ panicked = "none"
    /\ last = [op |-> "new", r |-> 1, args |-> <<>>, before |-> Lengths(OwnedBufferNew)]
    /\ ghost = [rec |-> <<GhostNew>>, pool_was_reset |-> FALSE, wrapped |-> FALSE]
    /\ mutex = MutexNew

Running == panicked = "none"

Start(r) == [memory |-> memory, rb |-> bufs[r], panicked |-> "none"]

WithinBounds(mem) ==
    /\ TotalCommands(mem) <= MaxLog
    /\ MaxDataLen(mem) <= 16 * MaxData

\* the effect of a call on command buffer r that ends in s1
Effect(r, op, args, s1) ==
    /\ WithinBounds(s1.memory)
    /\ memory' = s1.memory
    /\ bufs' = [bufs EXCEPT ![r] = s1.rb]
    /\ panicked' = s1.panicked
    /\ last' = [op |-> op, r |-> r, args |-> args,
                before |-> Lengths(ActiveBuffer(memory, bufs[r].id))]
    /\ UNCHANGED limits

\* a call on command buffer r that ends in s1, g being the bookkeeping of r
\* after it; every access of the call to the memory finds the mutex free and
\* releases it
Step(r, op, args, s1, g) ==
    /\ Effect(r, op, args, s1)
    /\ ghost' = [ghost EXCEPT !.rec[r] = g]
    /\ UNCHANGED mutex

\* bookkeeping of r after a recording call
Recorded(r, s1) ==
    [ghost.rec[r] EXCEPT !.mine = @ \cup Grown(memory, s1.memory, bufs[r])]

\* the effect of RawCommandBuffer::new
Created ==
    /\ Len(bufs) < MaxBuffers
    /\ LET n == new(memory)
       IN /\ memory' = n.memory
          /\ bufs' = Append(bufs, n.rb)
          /\ ghost' = [ghost EXCEPT !.rec = Append(@, GhostNew)]
          /\ last' = [op |-> "new", r |-> Len(bufs) + 1, args |-> <<>>,
                      before |-> Lengths(OwnedBufferNew)]
    /\ UNCHANGED <<limits, panicked>>

CallNew ==
    /\ Running
    /\ Created
    /\ UNCHANGED mutex

CallBegin ==
    /\ Running
    /\ \E r \in DOMAIN bufs :
          Step(r, "begin", <<>>, begin(Start(r)), GhostNew)

CallFinish ==
    /\ Running
    /\ \E r \in DOMAIN bufs :
          Step(r, "finish", <<>>, finish(Start(r)), ghost.rec[r])

CallReset ==
    /\ Running
    /\ \E r \in DOMAIN bufs :
          \E s1 \in {reset(Start(r))} :
             Step(r, "reset", <<>>, s1,
                  IF bufs[r].individual_reset THEN GhostNew ELSE ghost.rec[r])

\* the pool is reset; the command buffers are not touched
PoolReset ==
    /\ Running
    /\ memory.kind = "Linear"
    /\ memory' = pool_reset(memory)
    /\ ghost' = [ghost EXCEPT
                   !.rec = [r \in DOMAIN @ |-> [@[r] EXCEPT !.mine = {}, !.fresh = FALSE]],
                   !.pool_was_reset = @ \/ memory.buffer.commands # <<>>]
    /\ last' = [op |-> "pool_reset", r |-> 0, args |-> <<>>,
                before |-> Lengths(memory.buffer)]
    /\ UNCHANGED <<bufs, limits, panicked, mutex>>

BindGraphicsPipelineOf(P) ==
    /\ Running
    /\ \E r \in DOMAIN bufs, p \in P :
          \E s1 \in {bind_graphics_pipeline(Start(r), p)} :
             Step(r, "bind_graphics_pipeline", p, s1,
                  [Recorded(r, s1) EXCEPT !.primitive = Some(p.primitive),
                                          !.program = Some(p.program),
                                          !.patch_size = p.patch_size])

CallBindGraphicsPipeline == BindGraphicsPipelineOf(Pipelines)

\* pipelines that differ in topology only
CallBindPlainPipeline == BindGraphicsPipelineOf(PlainPipelines)

CallSetBlendConstants ==
    /\ Running
    /\ \E r \in DOMAIN bufs, cv \in ColorValues :
          \E s1 \in {set_blend_constants(Start(r), cv)} :
             Step(r, "set_blend_constants", cv, s1,
                  [Recorded(r, s1) EXCEPT !.blend_color = Some(cv)])

BindIndexBufferOf(V) ==
    /\ Running
    /\ \E r \in DOMAIN bufs, ibv \in V :
          \E s1 \in {bind_index_buffer(Start(r), ibv)} :
             Step(r, "bind_index_buffer", ibv, s1,
                  [Recorded(r, s1) EXCEPT !.index_type = Some(ibv.index_type)])

CallBindIndexBuffer == BindIndexBufferOf(IndexBufferViews)

\* one view of 16-bit indices
CallBindIndexBufferU16 == BindIndexBufferOf({[buffer |-> 7, index_type |-> "U16"]})

DrawOf(V) ==
    /\ Running
    /\ \E r \in DOMAIN bufs, v \in V, i \in InstanceRanges :
          \E s1 \in {draw(Start(r), v, i)} :
             Step(r, "draw", [vertices |-> v, instances |-> i], s1, Recorded(r, s1))

CallDraw == DrawOf(VertexRanges)

\* one vertex range
CallDrawOne == DrawOf({[start |-> 0, end |-> 3]})

\* a build either checks overflow or wraps, the same way in every call
DrawIndexedOf(IR, BV) ==
    /\ Running
    /\ \E r \in DOMAIN bufs, ix \in IR, bv \in BV,
          i \in InstanceRanges, checks \in BOOLEAN :
          LET s0 == Start(r)
              over == StartOverflows(s0, ix) \/ CountOverflows(s0, ix)
          IN \E s1 \in {draw_indexed(s0, ix, bv, i, checks)} :
             /\ checks => ~ghost.wrapped
             /\ ~over => checks
             /\ Effect(r, "draw_indexed",
                       [indices |-> ix, base_vertex |-> bv, instances |-> i], s1)
             /\ ghost' = [ghost EXCEPT !.rec[r] = Recorded(r, s1),
                                       !.wrapped = @ \/ (over /\ ~checks)]
             /\ UNCHANGED mutex

CallDrawIndexed == DrawIndexedOf(IndexRanges, BaseVertices)

\* one index range, one base vertex
CallDrawIndexedOne == DrawIndexedOf({[start |-> U32(10), end |-> U32(20)]}, {3})

CallDispatch ==
    /\ Running
    /\ \E r \in DOMAIN bufs :
          \E s1 \in {dispatch(Start(r), 1, 1, 1)} :
             Step(r, "dispatch", <<1, 1, 1>>, s1, Recorded(r, s1))

SetViewportsOf(L) ==
    /\ Running
    /\ \E r \in DOMAIN bufs, vs \in L :
          \E s1 \in {set_viewports(Start(r), vs)} :
             Step(r, "set_viewports", vs, s1, Recorded(r, s1))

CallSetViewports == SetViewportsOf(SeqsUpTo(Viewports, MaxViewportsLimit + 1))

\* the empty viewport list and one list of one viewport
CallSetViewportsShort ==
    SetViewportsOf({<<>>, <<[rect |-> [x |-> 0, y |-> 0, w |-> 4, h |-> 3],
                            depth |-> [start |-> 0, end |-> 1]]>>})

\* one pipeline: a triangle list drawn with program 1
CallBindTriangles ==
    BindGraphicsPipelineOf({[primitive |-> GL_TRIANGLES, patch_size |-> None, program |-> 1,
                             blend_targets |-> <<>>, attributes |-> <<>>]})

SetScissorsOf(L) ==
    /\ Running
    /\ \E r \in DOMAIN bufs, ss \in L :
          \E s1 \in {set_scissors(Start(r), ss)} :
             Step(r, "set_scissors", ss, s1, Recorded(r, s1))

CallSetScissors == SetScissorsOf(SeqsUpTo(Rects, MaxViewportsLimit + 1))

\* the empty scissor list and one list of one rectangle
CallSetScissorsShort ==
    SetScissorsOf({<<>>, <<[x |-> 0, y |-> 0, w |-> 4, h |-> 3]>>})

CallUnimplemented ==
    /\ Running
    /\ \E r \in DOMAIN bufs, op \in UnimplementedOps :
          Step(r, op, <<>>, unimplemented(Start(r)), ghost.rec[r])

\* one list of one rectangle
CallSetScissorsOne == SetScissorsOf({<<[x |-> 0, y |-> 0, w |-> 4, h |-> 3]>>})

\* every call of the recorder
Next ==
    \/ CallNew
    \/ CallBegin
    \/ CallFinish
    \/ CallReset
    \/ PoolReset
    \/ CallBindGraphicsPipeline
    \/ CallSetBlendConstants
    \/ CallBindIndexBuffer
    \/ CallDraw
    \/ CallDrawIndexed
    \/ CallDispatch
    \/ CallSetViewports
    \/ CallSetScissors
    \/ CallUnimplemented

Spec == Init /\ [][Next]_vars

\* one command buffer binding pipeline state
NextBind ==
    \/ CallBegin
    \/ CallBindGraphicsPipeline
    \/ CallSetBlendConstants

\* the device limit plays no part in these calls
InitOneViewport == InitOne /\ limits.max_viewports = 1

SpecBind == InitOneViewport /\ [][NextBind]_vars

\* one command buffer drawing after pipeline and index buffer binds
NextDraw ==
    \/ CallBegin
    \/ CallBindPlainPipeline
    \/ CallBindIndexBuffer
    \/ CallDraw
    \/ CallDrawIndexed

SpecDraw == InitOneViewport /\ [][NextDraw]_vars

\* one command buffer recording viewport and scissor payloads
NextViewport ==
    \/ CallBegin
    \/ CallSetViewports
    \/ CallSetScissors

SpecViewport == InitOne /\ [][NextViewport]_vars

\* one command buffer making valid and invalid recording calls
NextFlag ==
    \/ CallBegin
    \/ CallReset
    \/ CallBindTriangles
    \/ CallBindIndexBufferU16
    \/ CallDrawOne
    \/ CallDrawIndexedOne
    \/ CallSetViewportsShort
    \/ CallSetScissorsShort

SpecFlag == InitOneViewport /\ [][NextFlag]_vars

\* BufferSlice::append on its own: three slices a, b, c are chosen and merged
\* in both groupings, a result being [ok, slice] with ok false for a failed
\* assertion
Slices == {[offset |-> o, size |-> z] : o \in 0..MaxOffset, z \in 0..MaxSize}

\* x.append(other) where x is the result of an earlier append
AppendNext(x, other) == IF x.ok THEN BufferSlice_append(x.slice, other) ELSE x

InitSlice ==
    /\ memory = BufferMemoryNew("Linear")
    /\ bufs = <<>>
    /\ limits = [max_viewports |-> 1]
    /\ panicked = "none"
    /\ ghost = [rec |-> <<>>, pool_was_reset |-> FALSE, wrapped |-> FALSE]
    /\ mutex = MutexNew
    /\ \E a \in Slices, b \in Slices, c \in Slices :
          last = [op |-> "slices", r |-> 0, args |-> [a |-> a, b |-> b, c |-> c],
                  before |-> Lengths(OwnedBufferNew)]

AppendSlices ==
    /\ last.op = "slices"
    /\ LET a == last.args.a
           b == last.args.b
           c == last.args.c
           ab == BufferSlice_append(a, b)
           bc == BufferSlice_append(b, c)
       IN last' = [last EXCEPT
                     !.op = "append",
                     !.args = [a |-> a, b |-> b, c |-> c, ab |-> ab,
                               left |-> AppendNext(ab, c),
                               right |-> IF bc.ok THEN BufferSlice_append(a, bc.slice)
                                         ELSE bc]]
    /\ UNCHANGED <<memory, bufs, limits, panicked, ghost, mutex>>

NextSlice == AppendSlices

SpecSlice == InitSlice /\ [][NextSlice]_vars

\* one command buffer between recording, finishing and unsupported calls
NextMisc ==
    \/ CallBegin
    \/ CallSetScissorsShort
    \/ CallFinish
    \/ CallUnimplemented

SpecMisc == InitOneViewport /\ [][NextMisc]_vars

\* creation and resets of command buffers
NextPool ==
    \/ CallNew
    \/ CallBegin
    \/ CallReset
    \/ CallSetScissorsShort

InitPool == Init /\ limits.max_viewports = 1

SpecPool == InitPool /\ [][NextPool]_vars

\* command buffers of a Linear pool, and resets of the pool
NextLinear ==
    \/ CallNew
    \/ CallBegin
    \/ PoolReset
    \/ CallSetScissorsOne

InitLinear == InitPool /\ memory.kind = "Linear"

SpecLinear == InitLinear /\ [][NextLinear]_vars

\* Threads sharing the memory: an access to it is two steps, the try_lock and
\* the work done under the guard until it is dropped.

\* thread p reaches the try_lock of an access of the given kind
TryLockOf(p, kind) ==
    /\ Running
    /\ mutex.access[p] = "idle"
    /\ \E t \in {try_lock(mutex, p)} :
          /\ mutex' = IF t.ok THEN [t.mutex EXCEPT !.access[p] = kind] ELSE t.mutex
          /\ panicked' = IF t.ok THEN "none" ELSE "in-use"
    /\ last' = [op |-> "try_lock", r |-> p, args |-> kind,
                before |-> Lengths(OwnedBufferNew)]
    /\ UNCHANGED <<memory, limits>>

\* RawCommandBuffer::new up to its try_lock
LockNew ==
    /\ Len(bufs) < MaxBuffers
    /\ TryLockOf(0, "new")
    /\ UNCHANGED <<bufs, ghost>>

\* push_cmd up to its try_lock
LockPushCmd ==
    /\ \E r \in DOMAIN bufs : TryLockOf(r, "push_cmd")
    /\ UNCHANGED <<bufs, ghost>>

\* add_raw up to its try_lock
LockAddRaw ==
    /\ \E r \in DOMAIN bufs : TryLockOf(r, "add_raw")
    /\ UNCHANGED <<bufs, ghost>>

\* reset up to its try_lock: the soft reset comes first
LockReset ==
    \E r \in DOMAIN bufs :
       /\ bufs[r].individual_reset
       /\ TryLockOf(r, "reset")
       /\ bufs' = [bufs EXCEPT ![r] = soft_reset(Start(r)).rb]
       /\ ghost' = [ghost EXCEPT !.rec[r] = GhostNew]

\* the rest of RawCommandBuffer::new
DoNew ==
    /\ Running
    /\ mutex.access[0] = "new"
    /\ Created
    /\ mutex' = unlock(mutex, 0)

\* the rest of push_cmd
DoPushCmd ==
    /\ Running
    /\ \E r \in DOMAIN bufs :
          /\ mutex.access[r] = "push_cmd"
          /\ \E s1 \in {push_cmd(Start(r), Dispatch(1, 1, 1))} :
                /\ Effect(r, "push_cmd", <<>>, s1)
                /\ ghost' = [ghost EXCEPT !.rec[r] = Recorded(r, s1)]
          /\ mutex' = unlock(mutex, r)

\* the rest of add_raw, called through add with one rectangle
DoAddRaw ==
    /\ Running
    /\ \E r \in DOMAIN bufs :
          /\ mutex.access[r] = "add_raw"
          /\ \E s1 \in {add(Start(r), <<0, 0, 4, 3>>, "i32").s} :
                /\ Effect(r, "add_raw", <<>>, s1)
                /\ UNCHANGED ghost
          /\ mutex' = unlock(mutex, r)

\* the rest of reset
DoReset ==
    /\ Running
    /\ \E r \in DOMAIN bufs :
          /\ mutex.access[r] = "reset"
          /\ \E s1 \in {reset(Start(r))} :
                /\ Effect(r, "reset", <<>>, s1)
                /\ ghost' = [ghost EXCEPT !.rec[r] = GhostNew]
          /\ mutex' = unlock(mutex, r)

NextLock ==
    \/ LockNew
    \/ LockPushCmd
    \/ LockAddRaw
    \/ LockReset
    \/ DoNew
    \/ DoPushCmd
    \/ DoAddRaw
    \/ DoReset

SpecLock == InitPool /\ [][NextLock]_vars

\* command buffers of either kind of pool recording side by side, between
\* resets of a command buffer and of the pool
NextShared ==
    \/ CallNew
    \/ CallBegin
    \/ CallReset
    \/ PoolReset
    \/ CallDispatch

SpecShared == InitPool /\ [][NextShared]_vars

-----------------------------------------------------------------------------
(* Properties. A step is identified by the call it records in last'; the    *)
(* unprimed variables are the state before the call, the primed ones the    *)
(* state after it.                                                          *)

Log(mem, rb) == ActiveBuffer(mem, rb.id).commands
Data(mem, rb) == ActiveBuffer(mem, rb.id).data

\* the commands a step appended to the log of command buffer rb
NewCmds(mem1, mem2, rb) ==
    SubSeq(Log(mem2, rb), Len(Log(mem1, rb)) + 1, Len(Log(mem2, rb)))

\* the log after the step extends the log before it
Extends(mem1, mem2, rb) ==
    /\ Len(Log(mem1, rb)) <= Len(Log(mem2, rb))
    /\ SubSeq(Log(mem2, rb), 1, Len(Log(mem1, rb))) = Log(mem1, rb)

WithTag(cmds, tag) == SelectSeq(cmds, LAMBDA c : c.tag = tag)

\* C1: over bind_graphics_pipeline and set_blend_constants calls with no reset
\* in between, a call appends no BindProgram (SetPatchSize, SetBlendColor)
\* when it binds the program (patch size, blend color) that the previous such
\* call bound, and exactly one, carrying the bound value, when the value
\* differs from the previously bound one or nothing was bound before. A
\* pipeline without a patch size binds none and appends no SetPatchSize.
C1_DedupOnRebind ==
    [][/\ (last'.op = "bind_graphics_pipeline" /\ panicked' = "none") =>
            LET r == last'.r
                p == last'.args
                g == ghost.rec[r]
                added == NewCmds(memory, memory', bufs[r])
            IN /\ Extends(memory, memory', bufs[r])
               /\ WithTag(added, "BindProgram") =
                     IF g.program = Some(p.program) THEN <<>>
                     ELSE <<BindProgram(p.program)>>
               /\ WithTag(added, "SetPatchSize") =
                     IF p.patch_size = None \/ g.patch_size = p.patch_size THEN <<>>
                     ELSE <<SetPatchSize(Unwrap(p.patch_size))>>
               /\ WithTag(added, "SetBlendColor") = <<>>
       /\ (last'.op = "set_blend_constants" /\ panicked' = "none") =>
            LET r == last'.r
                cv == last'.args
                g == ghost.rec[r]
            IN /\ Extends(memory, memory', bufs[r])
               /\ NewCmds(memory, memory', bufs[r]) =
                     IF g.blend_color = Some(cv) THEN <<>> ELSE <<SetBlendColor(cv)>>
      ]_vars

\* a second bind of program 2 (which reads one attribute) in a row: two
\* BindAttribute commands but a single BindProgram and a single SetPatchSize
C1_Witness ==
    /\ last.op = "bind_graphics_pipeline"
    /\ panicked = "none"
    /\ last.args.program = 2
    /\ last.args.patch_size = Some(3)
    /\ Log(memory, bufs[1]) =
          <<SetPatchSize(3), BindProgram(2), BindAttribute("A0"), BindAttribute("A0")>>

\* C2: draw with no pipeline bound since the last begin/reset sets the error
\* flag and appends nothing; draw after a pipeline of topology T was bound
\* appends exactly one Draw carrying T and the given ranges and leaves the
\* error flag as it was.
C2_Draw ==
    [][last'.op = "draw" =>
          LET r == last'.r
              g == ghost.rec[r]
              added == NewCmds(memory, memory', bufs[r])
          IN /\ Extends(memory, memory', bufs[r])
             /\ IF g.primitive = None
                THEN /\ bufs'[r].cache.error_state
                     /\ added = <<>>
                ELSE /\ added = <<Draw(Unwrap(g.primitive), last'.args.vertices,
                                     last'.args.instances)>>
                     /\ bufs'[r].cache.error_state = bufs[r].cache.error_state
      ]_vars

\* a draw of a patch list after a draw that failed for want of a pipeline
C2_Witness ==
    /\ last.op = "draw"
    /\ bufs[1].cache.error_state
    /\ Len(Log(memory, bufs[1])) > 0
    /\ LET c == Log(memory, bufs[1])[Len(Log(memory, bufs[1]))]
       IN c.tag = "Draw" /\ c.primitive = GL_PATCHES /\ c.vertices = last.args.vertices

LeqU32(a, b) == a[1] < b[1] \/ (a[1] = b[1] /\ a[2] <= b[2])

\* C3: draw_indexed appends exactly one DrawIndexed if and only if an index
\* type and a topology are cached; the command carries the cached topology,
\* index_count = indices.end - indices.start, index_buffer_offset =
\* indices.start * width (2 for 16-bit, 4 for 32-bit indices) and the given
\* base_vertex and instances; otherwise the error flag is set and nothing is
\* appended. Stated for the ranges with start <= end.
C3_DrawIndexed ==
    [][(last'.op = "draw_indexed"
        /\ LeqU32(last'.args.indices.start, last'.args.indices.end)) =>
          LET r == last'.r
              g == ghost.rec[r]
              a == last'.args
              added == NewCmds(memory, memory', bufs[r])
          IN /\ Extends(memory, memory', bufs[r])
             /\ IF IsSome(g.index_type) /\ IsSome(g.primitive)
                THEN /\ Len(added) = 1
                     /\ added[1].tag = "DrawIndexed"
                     /\ added[1].primitive = Unwrap(g.primitive)
                     /\ added[1].index_count = SubWrap(a.indices.end, a.indices.start).val
                     /\ added[1].index_buffer_offset =
                           MulExact(a.indices.start, IndexWidth(Unwrap(g.index_type)))
                     /\ added[1].base_vertex = a.base_vertex
                     /\ added[1].instances = a.instances
                ELSE /\ bufs'[r].cache.error_state
                     /\ added = <<>>
      ]_vars

\* C4: set_viewports with no viewport, or with more viewports than
\* max_viewports, sets the error flag, appends no command and returns
\* normally.
C4_ViewportsRejected ==
    [][(last'.op = "set_viewports"
        /\ (Len(last'.args) = 0 \/ Len(last'.args) > limits.max_viewports)) =>
          LET r == last'.r
          IN /\ panicked' = "none"
             /\ bufs'[r].cache.error_state
             /\ Log(memory', bufs[r]) = Log(memory, bufs[r])
      ]_vars

\* C5: set_viewports with n viewports, 1 <= n <= max_viewports, appends
\* exactly one SetViewports whose slices cover 4*n 32-bit floats and 2*n
\* 64-bit floats, and does not set the error flag.
C5_ViewportsAccepted ==
    [][(last'.op = "set_viewports"
        /\ Len(last'.args) >= 1 /\ Len(last'.args) <= limits.max_viewports) =>
          LET r == last'.r
              n == Len(last'.args)
              added == NewCmds(memory, memory', bufs[r])
          IN /\ Extends(memory, memory', bufs[r])
             /\ Len(added) = 1
             /\ added[1].tag = "SetViewports"
             /\ added[1].viewport_ptr.size = (4 * n) * 4
             /\ added[1].depth_range_ptr.size = (2 * n) * 8
             /\ bufs'[r].cache.error_state = bufs[r].cache.error_state
      ]_vars

\* the four 32-bit integers of each rectangle, in list order
ScissorBytes(scissors) ==
    Concat([i \in 1..Len(scissors) |->
               LeBytes4(scissors[i].x) \o LeBytes4(scissors[i].y)
                   \o LeBytes4(scissors[i].w) \o LeBytes4(scissors[i].h)])

\* C6: set_scissors with n rectangles, 1 <= n <= max_viewports, appends
\* exactly one SetScissors whose slice starts at the length the data buffer
\* had before the call and covers exactly the n serialized rectangles (four
\* 32-bit integers each, in list order); with n = 0 or n > max_viewports it
\* sets the error flag and appends no command.
C6_Scissors ==
    [][last'.op = "set_scissors" =>
          LET r == last'.r
              n == Len(last'.args)
              added == NewCmds(memory, memory', bufs[r])
              before == Len(Data(memory, bufs[r]))
              data == Data(memory', bufs[r])
          IN /\ Extends(memory, memory', bufs[r])
             /\ panicked' = "none"
             /\ IF n >= 1 /\ n <= limits.max_viewports
                THEN /\ added = <<SetScissors([offset |-> before, size |-> 16 * n])>>
                     /\ Len(data) = before + 16 * n
                     /\ SubSeq(data, before + 1, before + 16 * n)
                           = ScissorBytes(last'.args)
                ELSE /\ bufs'[r].cache.error_state
                     /\ added = <<>>
      ]_vars

\* two different rectangles recorded behind an earlier payload
C6_Witness ==
    /\ last.op = "set_scissors"
    /\ panicked = "none"
    /\ Len(last.args) = 2
    /\ last.args[1] # last.args[2]
    /\ last.before.data > 0
    /\ LET log == Log(memory, bufs[1])
       IN log # <<>> /\ log[Len(log)] = SetScissors([offset |-> last.before.data, size |-> 32])

\* the cached per-slot blend vector of a command buffer; empty if none is cached
BlendVec(rb) ==
    IF IsSome(rb.cache.blend_targets) THEN Unwrap(rb.cache.blend_targets) ELSE <<>>

\* the 0-based slots of a dense descriptor list that a bind has to emit: those
\* the cached vector does not know or knows with another descriptor
StaleSlots(vec, descs) ==
    {i \in 0..(Len(descs) - 1) :
        i >= Len(vec) \/ vec[i + 1] = None \/ vec[i + 1] # Some(descs[i + 1])}

RECURSIVE BlendCmds(_, _, _)
BlendCmds(descs, stale, slot) ==
    IF slot >= Len(descs) THEN <<>>
    ELSE (IF slot \in stale THEN <<BindBlendSlot(slot, descs[slot + 1])>> ELSE <<>>)
             \o BlendCmds(descs, stale, slot + 1)

\* C7: a pipeline's blend descriptors are a dense list for the slots 0..n-1.
\* Binding it grows the cached vector to max(previous length, n) and no
\* recording call shrinks it; for each slot i < n a BindBlendSlot is appended,
\* in slot order, exactly when the cached entry is unknown or differs from
\* the descriptor, after which the entry equals the descriptor; the entries
\* of the slots >= n are kept.
C7_BlendTargets ==
    [][/\ last'.op \notin {"begin", "reset", "new"} =>
             Len(BlendVec(bufs'[last'.r])) >= Len(BlendVec(bufs[last'.r]))
       /\ (last'.op = "bind_graphics_pipeline" /\ panicked' = "none") =>
             LET r == last'.r
                 descs == last'.args.blend_targets
                 n == Len(descs)
                 pre == BlendVec(bufs[r])
                 post == BlendVec(bufs'[r])
                 added == NewCmds(memory, memory', bufs[r])
             IN /\ Extends(memory, memory', bufs[r])
                /\ Len(post) = IF Len(pre) >= n THEN Len(pre) ELSE n
                /\ \A i \in 1..Len(post) :
                      post[i] = IF i <= n THEN Some(descs[i]) ELSE pre[i]
                /\ WithTag(added, "BindBlendSlot")
                      = BlendCmds(descs, StaleSlots(pre, descs), 0)
      ]_vars

\* a shorter list bound over a longer cached vector: one slot differs
C7_Witness ==
    /\ last.op = "bind_graphics_pipeline"
    /\ panicked = "none"
    /\ last.args.blend_targets = <<"B1">>
    /\ BlendVec(bufs[1]) = <<Some("B1"), Some("B1")>>
    /\ LET log == Log(memory, bufs[1])
       IN /\ Len(log) = 4
          /\ log[4] = BindBlendSlot(0, "B1")
          /\ BindBlendSlot(0, "B0") \in {log[i] : i \in 1..3}

\* C7 as stated, its example at the scale of the model (slots [0,2] for
\* [0,2,5]): a bind on a fresh cache that grows the cached vector to cover
\* slot 2 leaves slot 1 unknown and appends exactly 2 BindBlendSlot commands.
C7_SparseSlots ==
    [][(/\ last'.op = "bind_graphics_pipeline"
        /\ panicked' = "none"
        /\ bufs[last'.r].cache.blend_targets = None
        /\ Len(BlendVec(bufs'[last'.r])) >= 3) =>
          /\ BlendVec(bufs'[last'.r])[2] = None
          /\ Len(WithTag(NewCmds(memory, memory', bufs[last'.r]), "BindBlendSlot")) = 2
      ]_vars

\* C8: in Individual mode the k-th command buffer created gets id k-1, greater
\* than every earlier id, and its creation inserts an empty pair under that id
\* and changes no existing pair; in Linear mode the new command buffer has id
\* 0, is not individually resettable, and the memory is unchanged. No
\* existing command buffer is changed.
C8_Creation ==
    [][last'.op = "new" =>
          LET k == last'.r
              rb == bufs'[k]
          IN /\ k = Len(bufs) + 1
             /\ Len(bufs') = k
             /\ \A j \in DOMAIN bufs : bufs'[j] = bufs[j]
             /\ IF memory.kind = "Individual"
                THEN /\ rb.id = k - 1
                     /\ rb.individual_reset
                     /\ \A j \in DOMAIN bufs : bufs[j].id < rb.id
                     /\ rb.id \notin DOMAIN memory.storage
                     /\ DOMAIN memory'.storage = DOMAIN memory.storage \cup {rb.id}
                     /\ memory'.storage[rb.id] = [commands |-> <<>>, data |-> <<>>]
                     /\ \A j \in DOMAIN memory.storage :
                           memory'.storage[j] = memory.storage[j]
                ELSE /\ rb.id = 0
                     /\ ~rb.individual_reset
                     /\ memory' = memory
      ]_vars

\* a second command buffer created after the first one has recorded
C8_Witness ==
    /\ last.op = "new"
    /\ last.r = 2
    /\ memory.kind = "Individual"
    /\ bufs[1].id = 0
    /\ bufs[2].id = 1
    /\ memory.storage[0].commands # <<>>
    /\ memory.storage[1] = [commands |-> <<>>, data |-> <<>>]

\* C9: in Individual mode reset, and begin through it, on command buffer k
\* empties the log and the data stored under k's id and clears k's coverage
\* slice and cache; the pairs stored under the other ids and the other
\* command buffers are unchanged.
C9_ResetFrame ==
    [][(last'.op \in {"reset", "begin"} /\ memory.kind = "Individual") =>
          LET k == last'.r
              id == bufs[k].id
          IN /\ panicked' = "none"
             /\ DOMAIN memory'.storage = DOMAIN memory.storage
             /\ memory'.storage[id] = [commands |-> <<>>, data |-> <<>>]
             /\ bufs'[k].buf = BufferSliceNew
             /\ bufs'[k].cache = CacheNew
             /\ bufs'[k].id = id
             /\ \A j \in DOMAIN memory.storage \ {id} :
                   memory'.storage[j] = memory.storage[j]
             /\ \A j \in DOMAIN bufs \ {k} : bufs'[j] = bufs[j]
      ]_vars

\* command buffer 1 is reset after both have recorded
C9_Witness ==
    /\ last.op = "reset"
    /\ last.r = 1
    /\ memory.kind = "Individual"
    /\ last.before.commands > 0
    /\ last.before.data > 0
    /\ Len(bufs) = 2
    /\ memory.storage[bufs[1].id] = [commands |-> <<>>, data |-> <<>>]
    /\ memory.storage[bufs[2].id].commands # <<>>
    /\ memory.storage[bufs[2].id].data # <<>>
    /\ bufs[2].buf.size > 0
    /\ bufs[2].cache.error_state

\* the log positions a coverage slice refers to
Covered(buf) == buf.offset .. (buf.offset + buf.size - 1)

\* C10: in a Linear pool that was reset after commands had been recorded, a
\* command buffer that has begun since the reset covers only log positions it
\* appended itself since then, and the first command recorded after the reset
\* by such a command buffer is at log position 0.
C10_AfterPoolReset ==
    [][ghost'.pool_was_reset =>
          \A r \in DOMAIN bufs' :
             (ghost'.rec[r].fresh /\ panicked' = "none") =>
                /\ Covered(bufs'[r].buf) \subseteq ghost'.rec[r].mine
                /\ Covered(bufs'[r].buf) \subseteq 0..(Len(memory'.buffer.commands) - 1)
                /\ (/\ r \in DOMAIN bufs
                    /\ last'.r = r
                    /\ last'.op = "set_scissors"
                    /\ memory.buffer.commands = <<>>) =>
                      /\ bufs'[r].buf = [offset |-> 0, size |-> 1]
                      /\ Len(memory'.buffer.commands) = 1
      ]_vars

\* A recorded, the pool was reset, B began and recorded its first command
C10_Witness ==
    /\ ghost.pool_was_reset
    /\ panicked = "none"
    /\ Len(bufs) = 2
    /\ ~ghost.rec[1].fresh
    /\ bufs[1].buf = [offset |-> 0, size |-> 2]
    /\ ghost.rec[2].fresh
    /\ last.op = "set_scissors"
    /\ last.r = 2
    /\ bufs[2].buf = [offset |-> 0, size |-> 1]
    /\ Len(memory.buffer.commands) = 1

\* C11: reset on a command buffer that is not individually resettable fails
\* fast: the call does not return normally, and the coverage slice, the
\* cache and the shared log and data are left as they were.
C11_ResetFailsFast ==
    [][(last'.op = "reset" /\ ~bufs[last'.r].individual_reset) =>
          /\ panicked' # "none"
          /\ bufs'[last'.r] = bufs[last'.r]
          /\ memory' = memory
      ]_vars

\* the recording calls, whose validation can set the error flag
RecordingOps ==
    {"bind_graphics_pipeline", "bind_index_buffer", "draw", "draw_indexed",
     "set_viewports", "set_scissors"}

\* the state s with the error flag cleared
Unflag(s) == [s EXCEPT !.rb.cache.error_state = FALSE]

\* the recording call op(args) made in state s
Replay(op, args, s, checks) ==
    CASE op = "bind_graphics_pipeline" -> bind_graphics_pipeline(s, args)
      [] op = "bind_index_buffer" -> bind_index_buffer(s, args)
      [] op = "draw" -> draw(s, args.vertices, args.instances)
      [] op = "draw_indexed" ->
            draw_indexed(s, args.indices, args.base_vertex, args.instances, checks)
      [] op = "set_viewports" -> set_viewports(s, args)
      [] op = "set_scissors" -> set_scissors(s, args)

\* C12: the error flag, once set, stays set across every recording call and
\* is cleared by begin; and a recording call on a flagged command buffer has
\* the effect it has on the same command buffer with the flag clear: the same
\* log and data, the same coverage slice and the same cache but for the flag.
C12_StickyFlag ==
    [][/\ last'.op \in RecordingOps =>
             LET r == last'.r
                 clean == Replay(last'.op, last'.args, Unflag(Start(r)),
                                 panicked' = "overflow")
             IN /\ bufs[r].cache.error_state => bufs'[r].cache.error_state
                /\ memory' = clean.memory
                /\ panicked' = clean.panicked
                /\ bufs'[r].buf = clean.rb.buf
                /\ Unflag([rb |-> bufs'[r]]) = Unflag([rb |-> clean.rb])
       /\ last'.op = "begin" => ~bufs'[last'.r].cache.error_state
      ]_vars

\* an indexed draw recorded after a validation failure
C12_Witness ==
    /\ last.op = "draw_indexed"
    /\ panicked = "none"
    /\ bufs[1].cache.error_state
    /\ LET log == Log(memory, bufs[1])
       IN /\ Len(log) = last.before.commands + 1
          /\ log[Len(log)].tag = "DrawIndexed"
          /\ log[Len(log)].index_count = U32(10)

\* the slice {a.offset, a.size + b.size + c.size}
InOrder(a, b, c) == [offset |-> a.offset, size |-> a.size + b.size + c.size]

\* C13: (a.append(b)).append(c) succeeds only if a.append(b.append(c)) does,
\* with the same slice, and the converse fails exactly for an empty b that
\* does not lie at the end of a non-empty a; for non-empty a, b, c both succeed
\* or both fail; a success with non-empty a gives {a.offset, a.size + b.size
\* + c.size}; append onto an empty slice yields the other slice; append onto
\* a non-empty a of a slice that does not start at a.offset + a.size fails,
\* whatever its size, and otherwise grows a by its size.
C13_AppendLaws ==
    last.op = "append" =>
       LET a == last.args.a
           b == last.args.b
           c == last.args.c
           ab == last.args.ab
           L == last.args.left
           R == last.args.right
       IN /\ L.ok => (R.ok /\ R.slice = L.slice)
          /\ (R.ok /\ ~L.ok) <=>
                (a.size > 0 /\ b.size = 0 /\ b.offset # a.offset + a.size
                     /\ c.offset = a.offset + a.size)
          /\ (a.size > 0 /\ b.size > 0 /\ c.size > 0) => (L.ok <=> R.ok)
          /\ (a.size > 0 /\ L.ok) => L.slice = InOrder(a, b, c)
          /\ a.size = 0 => ab = [ok |-> TRUE, slice |-> b]
          /\ (a.size > 0 /\ a.offset + a.size # b.offset) => ~ab.ok
          /\ (a.size > 0 /\ a.offset + a.size = b.offset) =>
                ab = [ok |-> TRUE, slice |-> [offset |-> a.offset, size |-> a.size + b.size]]

\* three non-empty adjacent slices merged
C13_Witness ==
    /\ last.op = "append"
    /\ last.args.a.size > 0 /\ last.args.b.size > 0 /\ last.args.c.size > 0
    /\ last.args.a.offset > 0
    /\ last.args.left.ok
    /\ last.args.right.ok
    /\ last.args.left.slice = InOrder(last.args.a, last.args.b, last.args.c)

\* C13 as stated: over all slices, zero-size ones included, the two groupings
\* succeed together and give {a.offset, a.size + b.size + c.size}; append onto
\* an empty slice yields the other; a non-adjacent append fails.
C13_Associative ==
    last.op = "append" =>
       LET a == last.args.a
           b == last.args.b
           c == last.args.c
           L == last.args.left
           R == last.args.right
       IN /\ L.ok <=> R.ok
          /\ L.ok => (L.slice = R.slice /\ L.slice = InOrder(a, b, c))
          /\ a.size = 0 => last.args.ab = [ok |-> TRUE, slice |-> b]
          /\ (a.size > 0 /\ a.offset + a.size # b.offset) => ~last.args.ab.ok

\* C14: a thread is in an access to the memory only while it holds the
\* mutex, so at most one access is in progress and no thread waits for the
\* mutex; a try_lock that finds the mutex held panics at once, leaving memory
\* and mutex as they were; a try_lock that finds it free takes it; and the
\* memory changes only in a step of the thread that holds the mutex.
C14_ExclusiveAccess ==
    [][/\ \A p \in DOMAIN mutex'.access :
             mutex'.access[p] # "idle" => mutex'.holder = Some(p)
       /\ (last'.op = "try_lock" /\ mutex.holder # None) =>
             /\ panicked' = "in-use"
             /\ memory' = memory
             /\ mutex' = mutex
       /\ (last'.op = "try_lock" /\ mutex.holder = None) =>
             /\ panicked' = "none"
             /\ memory' = memory
             /\ mutex'.holder = Some(last'.r)
       /\ memory' # memory =>
             /\ mutex.holder # None
             /\ mutex.access[Unwrap(mutex.holder)] = last'.op
             /\ mutex'.holder = None
      ]_vars

\* thread 2 tries to record while thread 1 is appending a command
C14_Witness ==
    /\ panicked = "in-use"
    /\ last.op = "try_lock"
    /\ last.r = 2
    /\ mutex.holder = Some(1)
    /\ mutex.access[1] = "push_cmd"
    /\ mutex.access[2] = "idle"
    /\ TotalCommands(memory) > 0

\* C15: each of the calls that are not supported panics as not implemented
\* and leaves the error flag, the log, the data, the coverage slice and the
\* cache as they were.
C15_Unimplemented ==
    [][last'.op \in UnimplementedOps =>
          /\ panicked' = "unimplemented"
          /\ memory' = memory
          /\ bufs' = bufs
      ]_vars

\* an unsupported call on a command buffer that has recorded, with no error
C15_Witness ==
    /\ last.op = "copy_buffer_to_image"
    /\ panicked = "unimplemented"
    /\ ~bufs[1].cache.error_state
    /\ bufs[1].buf.size > 0
    /\ Log(memory, bufs[1]) # <<>>
    /\ Data(memory, bufs[1]) # <<>>

\* C18: finish leaves the log, the data, the coverage slice, the cache and
\* the error flag as they were, and returns normally.
C18_FinishNoop ==
    [][last'.op = "finish" =>
          /\ memory' = memory
          /\ bufs' = bufs
          /\ panicked' = "none"
      ]_vars

\* finish on a flagged command buffer that has recorded
C18_Witness ==
    /\ last.op = "finish"
    /\ panicked = "none"
    /\ bufs[1].cache.error_state
    /\ bufs[1].buf.size > 0
    /\ Log(memory, bufs[1]) # <<>>
    /\ Data(memory, bufs[1]) # <<>>

\* the commands a recording call can emit
TagsOf(op) ==
    CASE op = "bind_graphics_pipeline" ->
            {"SetPatchSize", "BindProgram", "BindAttribute", "BindBlendSlot"}
      [] op = "bind_index_buffer" -> {"BindIndexBuffer"}
      [] op = "draw" -> {"Draw"}
      [] op = "draw_indexed" -> {"DrawIndexed"}
      [] op = "set_viewports" -> {"SetViewports"}
      [] op = "set_scissors" -> {"SetScissors"}

\* C16: a recording call leaves the entries already in the log of its command
\* buffer as they were, in number, order and content, and puts the commands it
\* emits, which are commands of that call, behind them; begin and reset either
\* leave the log as it was or empty it.
C16_AppendOnly ==
    [][/\ last'.op \in RecordingOps =>
             LET r == last'.r
                 added == NewCmds(memory, memory', bufs[r])
             IN /\ Extends(memory, memory', bufs[r])
                /\ \A i \in 1..Len(added) : added[i].tag \in TagsOf(last'.op)
       /\ last'.op \in {"begin", "reset"} =>
             \/ Log(memory', bufs[last'.r]) = Log(memory, bufs[last'.r])
             \/ /\ bufs[last'.r].individual_reset
                /\ Log(memory', bufs[last'.r]) = <<>>
      ]_vars

\* four calls have each put one command behind those of the calls before
C16_Witness ==
    /\ last.op = "draw_indexed"
    /\ panicked = "none"
    /\ last.before.commands = 3
    /\ LET log == Log(memory, bufs[1])
       IN /\ Len(log) = 4
          /\ log[1].tag = "BindProgram"
          /\ log[2].tag = "SetScissors"
          /\ log[3].tag = "BindIndexBuffer"
          /\ log[4].tag = "DrawIndexed"

\* C17: begin on an individually resettable command buffer empties its log
\* and data and leaves it with an empty coverage slice and a new cache, the
\* error flag clear; on any other command buffer begin leaves the memory as
\* it was and only empties the coverage slice and renews the cache, so that
\* the next command recorded through it lies behind the whole existing log.
C17_Begin ==
    [][/\ last'.op = "begin" =>
             LET r == last'.r
             IN /\ panicked' = "none"
                /\ bufs'[r].buf = BufferSliceNew
                /\ bufs'[r].cache = CacheNew
                /\ ~bufs'[r].cache.error_state
                /\ IF bufs[r].individual_reset
                   THEN /\ Log(memory', bufs[r]) = <<>>
                        /\ Data(memory', bufs[r]) = <<>>
                   ELSE memory' = memory
       /\ (/\ last'.op = "set_scissors"
           /\ last.op = "begin"
           /\ last.r = last'.r
           /\ panicked' = "none"
           /\ NewCmds(memory, memory', bufs[last'.r]) # <<>>) =>
             bufs'[last'.r].buf = [offset |-> Len(Log(memory, bufs[last'.r])), size |-> 1]
      ]_vars

\* begin on the only command buffer of a Linear pool, which has recorded
\* three commands
C17_Witness ==
    /\ last.op = "begin"
    /\ panicked = "none"
    /\ memory.kind = "Linear"
    /\ Len(bufs) = 1
    /\ ~bufs[1].individual_reset
    /\ bufs[1].buf = BufferSliceNew
    /\ Len(memory.buffer.commands) = 3
    /\ memory.buffer.data # <<>>

\* x occurs in d as one contiguous range
Contiguous(x, d) ==
    \E i \in 0..(Len(d) - Len(x)) : SubSeq(d, i + 1, i + Len(x)) = x

\* the serialized rectangles, and the serialized depth ranges, of a viewport
\* list, each in list order
ViewportRectBytes(viewports) ==
    Concat([i \in 1..Len(viewports) |->
               Concat([j \in 1..4 |-> F32Bytes(RectF32(viewports[i].rect)[j])])])

ViewportDepthBytes(viewports) ==
    Concat([i \in 1..Len(viewports) |->
               Concat([j \in 1..2 |-> F64Bytes(DepthF64(viewports[i].depth)[j])])])

\* C19: set_viewports with two or more viewports, on the only command buffer
\* writing to its memory, does not fail a slice append, and the rectangles it
\* serialized lie in the data as one contiguous range, as do the depth ranges.
C19_ViewportsContiguous ==
    [][(last'.op = "set_viewports" /\ Len(last'.args) >= 2) =>
          LET r == last'.r
              before == Len(Data(memory, bufs[r]))
              data == Data(memory', bufs[r])
              written == SubSeq(data, before + 1, Len(data))
          IN /\ panicked' # "assert_eq"
             /\ Contiguous(ViewportRectBytes(last'.args), written)
             /\ Contiguous(ViewportDepthBytes(last'.args), written)
      ]_vars

\* C20: a DrawIndexed emitted by draw_indexed has index_buffer_offset equal
\* to the exact product indices.start * width, for every start and both
\* widths, the call never failing on that product; and for a range with
\* start <= end its index_count is end - start.
C20_ExactOffset ==
    [][(/\ last'.op = "draw_indexed"
        /\ IsSome(bufs[last'.r].cache.index_type)
        /\ IsSome(bufs[last'.r].cache.primitive)) =>
          LET r == last'.r
              a == last'.args
              width == IndexWidth(Unwrap(bufs[r].cache.index_type))
              added == NewCmds(memory, memory', bufs[r])
          IN /\ LeqU32(a.indices.start, a.indices.end) =>
                   /\ panicked' = "none"
                   /\ Len(added) = 1
                   /\ added[1].index_count = SubWrap(a.indices.end, a.indices.start).val
             /\ MulExact(a.indices.start, width)[1] # 0 => panicked' # "overflow"
             /\ \A i \in 1..Len(added) :
                   added[i].index_buffer_offset = MulExact(a.indices.start, width)
      ]_vars

\* the calls that append to the log
AppendingOps == RecordingOps \cup {"dispatch", "set_blend_constants"}

\* after a step, the coverage slice of command buffer r lies within its log,
\* covers only positions r appended since its last begin/reset, and grew by
\* the number of commands the step appended
CoversOwn(r) ==
    /\ Covered(bufs'[r].buf) \subseteq 0..(Len(Log(memory', bufs'[r])) - 1)
    /\ Covered(bufs'[r].buf) \subseteq ghost'.rec[r].mine
    /\ bufs'[r].buf.size =
          bufs[r].buf.size + Len(NewCmds(memory, memory', bufs[r]))

\* C21: when a recording call on a command buffer that was created or begun
\* since the last reset of its pool returns normally, its coverage slice lies
\* within its log and covers only commands it appended itself since its last
\* begin/reset, one position per appended command. Command buffers recording
\* in turns into a shared log are stopped by the assertion of append.
C21_CoverageOwn ==
    [][(/\ last'.op \in AppendingOps
        /\ panicked' = "none"
        /\ ghost'.rec[last'.r].fresh) => CoversOwn(last'.r)
      ]_vars

\* two command buffers of a Linear pool that was reset, both begun or created
\* since, each covering the one command it recorded
C21_Witness ==
    /\ last.op = "dispatch"
    /\ panicked = "none"
    /\ memory.kind = "Linear"
    /\ ghost.pool_was_reset
    /\ Len(bufs) = 2
    /\ ghost.rec[1].fresh /\ ghost.rec[2].fresh
    /\ bufs[1].buf = [offset |-> 0, size |-> 1]
    /\ bufs[2].buf = [offset |-> 1, size |-> 1]
    /\ ghost.rec[2].mine = {1}

\* C21 as stated, for every command buffer: also one that recorded before the
\* pool was reset and has not begun since
C21_NeverCoversOthers ==
    [][(last'.op \in AppendingOps /\ panicked' = "none") => CoversOwn(last'.r)]_vars

\* the call recorded in last' is a set_scissors or set_viewports call that
\* returned normally and whose count is zero or above max_viewports
Rejected ==
    /\ last'.op \in {"set_scissors", "set_viewports"}
    /\ panicked' = "none"
    /\ (Len(last'.args) = 0 \/ Len(last'.args) > limits.max_viewports)

\* C22: a set_scissors or set_viewports call rejected by validation leaves
\* the log unchanged and sets the error flag. With count zero it leaves the
\* data buffer unchanged as well; a set_scissors call with n > max_viewports
\* rectangles leaves the n serialized rectangles (16 * n bytes) at the end of
\* the data buffer, after the bytes that were there before.
C22_RejectedPayloadStays ==
    [][Rejected =>
          LET r == last'.r
              n == Len(last'.args)
              before == Data(memory, bufs[r])
              data == Data(memory', bufs[r])
          IN /\ Log(memory', bufs[r]) = Log(memory, bufs[r])
             /\ bufs'[r].cache.error_state
             /\ n = 0 => data = before
             /\ (last'.op = "set_scissors" /\ n > 0) =>
                   /\ data = before \o ScissorBytes(last'.args)
                   /\ Len(data) = Len(before) + 16 * n
      ]_vars

\* two rectangles where one is allowed: rejected, nothing in the log, the 32
\* bytes of the two rectangles in the data buffer
C22_Witness ==
    /\ last.op = "set_scissors"
    /\ panicked = "none"
    /\ limits.max_viewports = 1
    /\ Len(last.args) = 2
    /\ bufs[1].cache.error_state
    /\ Log(memory, bufs[1]) = <<>>
    /\ last.before.data = 0
    /\ Len(Data(memory, bufs[1])) = 32

\* C22 as stated: a rejected call leaves the data buffer as it was
C22_RejectedLeavesData ==
    [][Rejected =>
          /\ Log(memory', bufs[last'.r]) = Log(memory, bufs[last'.r])
          /\ Data(memory', bufs[last'.r]) = Data(memory, bufs[last'.r])
      ]_vars

\* the commands the coverage slice of command buffer rb refers to
Coverage(mem, rb) ==
    SubSeq(Log(mem, rb), rb.buf.offset + 1, rb.buf.offset + rb.buf.size)

\* the last command of a sequence, if any
MostRecent(cmds) == IF cmds = <<>> THEN None ELSE Some(cmds[Len(cmds)])

\* C23: in every state of a command buffer that alone writes its storage,
\* a program (blend colour, patch size) known to the cache is the one of the
\* most recent BindProgram (SetBlendColor, SetPatchSize) command among those
\* the coverage slice refers to, and a blend descriptor known for slot i is
\* the one of the most recent BindBlendSlot command for slot i.
C23_CacheAgreesWithLog ==
    panicked = "none" =>
       \A r \in DOMAIN bufs :
          LET c == bufs[r].cache
              cov == Coverage(memory, bufs[r])
              vec == BlendVec(bufs[r])
          IN /\ Covered(bufs[r].buf) \subseteq 0..(Len(Log(memory, bufs[r])) - 1)
             /\ IsSome(c.program) =>
                   MostRecent(WithTag(cov, "BindProgram")) = Some(BindProgram(Unwrap(c.program)))
             /\ IsSome(c.blend_color) =>
                   MostRecent(WithTag(cov, "SetBlendColor"))
                      = Some(SetBlendColor(Unwrap(c.blend_color)))
             /\ IsSome(c.patch_size) =>
                   MostRecent(WithTag(cov, "SetPatchSize"))
                      = Some(SetPatchSize(Unwrap(c.patch_size)))
             /\ \A i \in 1..Len(vec) :
                   IsSome(vec[i]) =>
                      MostRecent(SelectSeq(cov, LAMBDA b : b.tag = "BindBlendSlot"
                                                             /\ b.slot = i - 1))
                         = Some(BindBlendSlot(i - 1, Unwrap(vec[i])))

\* program 1 with one blend target bound, then two blend colours set: the
\* cache knows the second colour, and the first is still in the log
C23_Witness ==
    /\ panicked = "none"
    /\ last.op = "set_blend_constants"
    /\ bufs[1].cache.program = Some(1)
    /\ bufs[1].cache.blend_color = Some("C1")
    /\ BlendVec(bufs[1]) = <<Some("B1")>>
    /\ Coverage(memory, bufs[1]) =
          <<BindProgram(1), BindBlendSlot(0, "B1"), SetBlendColor("C0"), SetBlendColor("C1")>>

====
